---- MODULE Spec2Model ----
(***************************************************************************)
(* The upload -> normalize -> rasterize -> publish pipeline of the         *)
(* liff-file-uploader servers.  One upload job is followed through the     *)
(* /api/upload handler of five of the repository's server variants:        *)
(*   "v1"  src/server.js lines 1-1155     (configs + shell fallback)       *)
(*   "v2"  src/server.js lines 1418-2100  (single renderer, no fallback)   *)
(*   "p5"  src/unnamed/part_005           (mammoth/puppeteer + poppler)    *)
(*   "p8"  src/unnamed/part_008           (first variant, other fallback)  *)
(*   "p4"  src/unnamed/part_004 1802-1894 (ES modules, soffice via exec)   *)
(* The external collaborators (multer, libreoffice-convert, pdf2pic, the   *)
(* `convert` shell command, the webhook) are nondeterministic inputs.      *)
(***************************************************************************)
EXTENDS Integers, Sequences, FiniteSets, TLC

VARIABLES
    variant,            \* which server file is deployed
    libreOfficeConvert, \* module handle loaded (truthy) or not
    pdf2pic,            \* module handle loaded (truthy) or not
    keepOriginal,       \* process.env.KEEP_ORIGINAL_FILES === 'true'
    ext,                \* path.extname(originalname).toLowerCase()
    pc,                 \* position of the handler
    intake,             \* outcome of upload.single('file')
    uploadExists,       \* the stored upload req.file.path is on disk
    unlinks,            \* history: what fs.unlinkSync(req.file.path) did
    pdfFile,            \* content of the file at pdfPath
    dirExists,          \* the image output directory exists
    imgDir,             \* files of the image output directory: name -> size
    cfgIdx,             \* loop variable i of convertPDFToImages (1-based)
    results,            \* `results` of convertPDFToImages
    lastError,          \* `lastError` of convertPDFToImages
    error,              \* the error in flight (thrown, not yet handled)
    imageFiles,         \* `imageFiles` of the orchestrator
    result,             \* value returned by processFileConversion
    respStatus,         \* HTTP status of the response sent (0: none yet)
    responses,          \* calls of res.json / res.status(..).json so far
    respSuccess,        \* `success` field of the response body
    convOut,            \* history: what the office converter did
    attempts,           \* history: rendering strategies invoked, in order
    normStatus,         \* history: outcome of the Normalizer stage
    rastStatus,         \* history: outcome of the Rasterizer stage
    rastError,          \* history: error the Rasterizer failed with
    published,          \* history: results handed to the Result Publisher
    clock,              \* Date.now(), in milliseconds
    jobs,               \* the paths every upload job of the process was given
    probe,              \* how far loadConversionModules has come
    listening           \* app.listen was called

deploy == <<variant, libreOfficeConvert, pdf2pic, keepOriginal, ext>>
\* What the handler of one request never writes.
startup == <<probe, listening>>
conf == <<deploy, clock, jobs, startup>>
handler == <<pc, intake, uploadExists, unlinks, pdfFile, dirExists, imgDir, cfgIdx,
             results, lastError, error, imageFiles, result, respStatus,
             responses, respSuccess, convOut, attempts, normStatus, rastStatus,
             rastError, published>>
vars == <<conf, pc, intake, uploadExists, unlinks, pdfFile, dirExists, imgDir, cfgIdx,
          results, lastError, error, imageFiles, result, respStatus,
          responses, respSuccess, convOut, attempts, normStatus, rastStatus, rastError,
          published>>

\* ---------------------------------------------------------------- bounds
MaxPages == 2
MaxClock == 2
NumJobs == 2

\* ------------------------------------------------------ program constants
MinValidSize == 100
NumConfigs == 2

\* ------------------------------------------------------------- vocabulary
Variants == {"v1", "v2", "p5", "p8", "p4"}
ServerJs == {"v1", "v2"}
\* The variants whose orchestrator goes on without images.
Orchestrated == {"v1", "p8"}
Exts == {".pdf", ".doc", ".docx"}
Sizes == {0, MinValidSize, MinValidSize + 1}
Absent == 0 - 1
NoResult == [kind |-> "none"]
NullResults == [null |-> TRUE, files |-> <<>>]

\* File names inside the image output directory.  pfx: the name starts with
\* baseName; sep: the character that follows baseName; page: the decimal
\* page index the renderer embedded in the name.  All of them end in .png.
CfgName(p) == [pfx |-> TRUE, sep |-> ".", page |-> p]
ShellName(p) == [pfx |-> TRUE, sep |-> "-", page |-> p - 1]
ThumbName == [pfx |-> FALSE, sep |-> "-", page |-> 0]

RECURSIVE Digits(_)
Digits(n) ==
    IF n < 10 THEN <<n>> ELSE Append(Digits(n \div 10), n % 10)

\* The characters of a name that follow the common prefix, as code points
\* relative to each other: '-' (0x2D) < '.' (0x2E) < '0'..'9'.
NameKey(f) ==
    <<(IF f.sep = "-" THEN 0 - 2 ELSE 0 - 1)>> \o Digits(f.page) \o <<0 - 1>>

RECURSIVE SeqLess(_, _)
SeqLess(a, b) ==
    IF a = <<>> THEN b # <<>>
    ELSE IF b = <<>> THEN FALSE
    ELSE IF Head(a) # Head(b) THEN Head(a) < Head(b)
    ELSE SeqLess(Tail(a), Tail(b))

NameLess(f, g) == SeqLess(NameKey(f), NameKey(g))

\* Array.prototype.sort() on path strings sharing one directory.
RECURSIVE SortNames(_)
SortNames(S) ==
    IF S = {} THEN <<>>
    ELSE LET m == CHOOSE x \in S : \A y \in S \ {x} : NameLess(x, y)
         IN  <<m>> \o SortNames(S \ {m})

Range(s) == {s[i] : i \in DOMAIN s}

\* What one renderer invocation does.  Returning normally it claims k output
\* files (pages 1..k) and leaves, for each, a file of some size on disk or
\* nothing; throwing it may have left its first k pages behind.
RenderOutcomes ==
    UNION {[throws : {FALSE}, k : {k}, disk : [1..k -> Sizes \cup {Absent}]]
           : k \in 0..MaxPages}
    \cup
    UNION {[throws : {TRUE}, k : {k}, disk : [1..k -> {MinValidSize + 1}]]
           : k \in 0..MaxPages}

\* The office converter: it throws, resolves with an empty buffer, or
\* resolves with PDF bytes.
ConvOutcomes == {"throws", "empty", "bytes"}

\* The webhook call of the Result Publisher.
PublishOutcomes == {"no_url", "sent", "failed"}

\* The directory after an invocation wrote its files; names[p] is the file
\* name used for page p.
WriteFiles(dir, out, names) ==
    LET written == {p \in 1..out.k : out.disk[p] # Absent}
        newNames == {names[p] : p \in written}
    IN  [f \in (DOMAIN dir) \cup newNames |->
            IF f \in newNames
            THEN out.disk[CHOOSE p \in written : names[p] = f]
            ELSE dir[f]]

\* An image in the output directory that no renderer of the job wrote; its
\* name does not start with baseName.
OtherImage == [pfx |-> FALSE, sep |-> "-", page |-> 1]

\* `if (!fs.existsSync(outputDir)) fs.mkdirSync(...)`: the directory is new
\* and empty, or it was there already and holds an image.
FoundInDir == {<<>>, [f \in {OtherImage} |-> MinValidSize + 1]}

\* The paths pdf2pic, `convert` and poppler write for pages 1..k.
CfgNames(k) == [p \in 1..k |-> CfgName(p)]
ShellNames(k) == [p \in 1..k |-> ShellName(p)]

\* Original file names: path.parse(originalname) gives name and ext.
FileNames == {[name |-> "resume", ext |-> ".pdf"],
              [name |-> "resume", ext |-> ".docx"],
              [name |-> "cv", ext |-> ".pdf"]}
JobIds == 1..NumJobs
NoPath == <<>>
NewJob(f) == [file |-> f, stage |-> "new", uploadPath |-> NoPath,
              pdfPath |-> NoPath, imageOutputDir |-> NoPath]

\* The handler has not started: nothing stored, nothing produced.
HandlerIdle ==
    /\ pc = "start"
    /\ intake = "pending"
    /\ uploadExists = FALSE
    /\ unlinks = "not_called"
    /\ pdfFile = "absent"
    /\ dirExists = FALSE
    /\ imgDir = <<>>
    /\ cfgIdx = 0
    /\ results = NullResults
    /\ lastError = "none"
    /\ error = "none"
    /\ imageFiles = <<>>
    /\ result = NoResult
    /\ respStatus = 0
    /\ responses = 0
    /\ respSuccess = FALSE
    /\ convOut = "none"
    /\ attempts = <<>>
    /\ normStatus = "not_run"
    /\ rastStatus = "not_run"
    /\ rastError = "none"
    /\ published = <<>>

Init ==
    /\ variant \in Variants
    /\ libreOfficeConvert \in (IF variant \in {"p5", "p4"} THEN {FALSE}
                                ELSE BOOLEAN)
    /\ pdf2pic \in (IF variant = "p5" THEN {FALSE}
                     ELSE IF variant = "p4" THEN {TRUE} ELSE BOOLEAN)
    /\ keepOriginal \in (IF variant \in Orchestrated THEN BOOLEAN ELSE {FALSE})
    /\ ext \in Exts
    /\ clock = 0
    /\ jobs = [j \in JobIds |-> NewJob([name |-> "resume", ext |-> ext])]
    /\ probe = [step |-> "done", imageTools |-> pdf2pic]
    /\ listening = TRUE
    /\ HandlerIdle


\* ================================================================ helpers

\* A convertToPDF that opens the destination before it checks the module.
ConvertToPDFOpensFirst(loaded, out) ==
    IF ~loaded THEN [file |-> "empty", error |-> "module_not_loaded"]
    ELSE IF out = "throws" THEN [file |-> "empty", error |-> "convert_failed"]
    ELSE IF out = "empty" THEN [file |-> "empty", error |-> "none"]
    ELSE [file |-> "converted", error |-> "none"]

\* convertToPDF: the destination file and the error thrown ("none": the
\* function returned outputPath).  Nothing is written before the converter
\* resolved; whatever buffer it resolved with is written as it is.
ConvertToPDF(loaded, out) ==
    IF ~loaded THEN [file |-> "absent", error |-> "module_not_loaded"]
    ELSE IF out = "throws" THEN [file |-> "absent", error |-> "convert_failed"]
    ELSE IF out = "empty" THEN [file |-> "empty", error |-> "none"]
    ELSE [file |-> "converted", error |-> "none"]

\* A copy that creates the destination without writing the bytes.
CopyFileTruncated(copied) ==
    [file |-> IF copied THEN "empty" ELSE "absent",
     error |-> IF copied THEN "none" ELSE "copy_failed"]

\* fs.copyFileSync(originalFile.path, pdfPath): the destination holds the
\* bytes of the upload ("copy"), or the call threw and nothing is there.
CopyFile(copied) ==
    [file |-> IF copied THEN "copy" ELSE "absent",
     error |-> IF copied THEN "none" ELSE "copy_failed"]

\* A step 1 that is run again after it failed.
AfterNormalizeRetried(err) == IF err = "none" THEN "raster" ELSE "normalize"

\* A step 1 whose error is swallowed instead of rethrown.
AfterNormalizeSwallowed(err) == "raster"

\* Where processFileConversion goes after step 1: on to step 2, or out
\* through its catch block (the error is rethrown to the handler).
AfterNormalize(err) == IF err = "none" THEN "raster" ELSE "catch"

\* A loop without its `break`.
LoopContinuesNoBreak(success, i) == i < NumConfigs

\* The for loop of convertPDFToImages goes on to configuration i + 1: the
\* attempt with configuration i returned nothing or threw, and one is left.
LoopContinues(success, i) == ~success /\ i < NumConfigs

\* `throw lastError || new Error(...)`
PhaseError(last) == IF last # "none" THEN last ELSE "all_configs_failed"

CfgTag(i) == IF i = 1 THEN "config1" ELSE "config2"
CfgError(i) == IF i = 1 THEN "config1_threw" ELSE "config2_threw"

\* The loop over `results` that keeps the paths fs.existsSync finds.
ValidImages(res, dir) == SelectSeq(res, LAMBDA f : f \in DOMAIN dir)

\* A scan that adds the other images to the ones with the prefix.
SystemScanWithOthers(dir) ==
    LET valid(S) == SelectSeq(SortNames(S), LAMBDA f : dir[f] > MinValidSize)
    IN  valid({f \in DOMAIN dir : f.pfx}) \o valid({f \in DOMAIN dir : ~f.pfx})

\* The directory scan of convertPDFUsingSystemCommand: the names with the
\* baseName prefix, or any image when there is none, sorted, and of these
\* the ones fs.statSync reports larger than 100 bytes.
SystemScan(dir) ==
    LET byPrefix == {f \in DOMAIN dir : f.pfx}
        found == IF byPrefix = {} THEN DOMAIN dir ELSE byPrefix
    IN  SelectSeq(SortNames(found), LAMBDA f : dir[f] > MinValidSize)

\* Pages numbered by the bare array index.
PageFilesFromZero(files) ==
    [i \in 1..Len(files) |-> [name |-> files[i], page |-> i - 1]]

\* imageFiles.files of the result: page is index + 1.
PageFiles(files) ==
    [i \in 1..Len(files) |-> [name |-> files[i], page |-> i]]

\* A result whose URLs are built whatever the count is.
BuildResultAlwaysUrls(pdf, files) ==
    [kind |-> "result",
     pdf |-> pdf,
     count |-> Len(files),
     downloadUrl |-> "folder",
     zipDownloadUrl |-> "zip",
     files |-> PageFiles(files)]

\* The `result` object of processFileConversion (first variant).
BuildResult(pdf, files) ==
    [kind |-> "result",
     pdf |-> pdf,
     count |-> Len(files),
     downloadUrl |-> IF Len(files) > 0 THEN "folder" ELSE "null",
     zipDownloadUrl |-> IF Len(files) > 0 THEN "zip" ELSE "null",
     files |-> PageFiles(files)]

\* A publisher whose webhook error reaches the handler.
AfterPublishThrows(sent) == IF sent = "failed" THEN "catch" ELSE "respond"

\* sendLineStyleMessageToN8N returns false without a webhook URL and
\* catches the error of the webhook call: the handler always goes on.
AfterPublish(sent) == "respond"

\* A publisher call that is repeated when the webhook failed.
PublishCallRetried(pub, res, sent) ==
    IF sent = "failed"
    THEN pub \o <<[with |-> res, outcome |-> sent],
                  [with |-> res, outcome |-> sent]>>
    ELSE Append(pub, [with |-> res, outcome |-> sent])

\* `await sendLineStyleMessageToN8N(userInfo, fileInfo, conversionResult)`:
\* one invocation with the result, whatever the webhook does with it.
PublishCall(pub, res, sent) == Append(pub, [with |-> res, outcome |-> sent])

\* ============================================== src/server.js, lines 1-1155

\* upload.single('file') and the two guards in front of the handler body.
Intake ==
    /\ pc = "start"
    /\ listening
    /\ variant # "p4"
    /\ \E got \in {"error", "nofile", "stored"} :
         /\ intake' = got
         /\ uploadExists' = (got = "stored")
         /\ UNCHANGED unlinks
         /\ IF got = "stored"
            THEN /\ pc' = (IF variant \in Orchestrated THEN "precheck"
                           ELSE IF variant = "v2" THEN "normalize"
                           ELSE "p5_normalize")
                 /\ UNCHANGED <<respStatus, responses, respSuccess>>
            ELSE /\ pc' = "done"
                 /\ respStatus' = 400
                 /\ responses' = responses + 1
                 /\ respSuccess' = FALSE
    /\ UNCHANGED <<conf, pdfFile, dirExists, imgDir, cfgIdx, results,
                   lastError, error, imageFiles, result, convOut, attempts,
                   normStatus, rastStatus, rastError, published>>

\* A handler without its pre-check.
ConversionUnavailableNever(e, loaded) == FALSE

\* `originalExt !== '.pdf' && !libreOfficeConvert`
ConversionUnavailable(e, loaded) == e # ".pdf" /\ ~loaded

\* The handler's check that the format can be converted at all.
PreCheck ==
    /\ pc = "precheck"
    /\ IF ConversionUnavailable(ext, libreOfficeConvert)
       THEN /\ pc' = "done"
            /\ respStatus' = 400
            /\ responses' = responses + 1
            /\ respSuccess' = FALSE
       ELSE /\ pc' = "normalize"
            /\ UNCHANGED <<respStatus, responses, respSuccess>>
    /\ UNCHANGED <<conf, intake, uploadExists, unlinks, pdfFile, dirExists, imgDir,
                   cfgIdx, results, lastError, error, imageFiles, result,
                   convOut, attempts, normStatus, rastStatus, rastError,
                   published>>

\* Step 1 of processFileConversion ended with this file and this error.
NormalizeEnds(file, err, conv) ==
    /\ pdfFile' = file
    /\ error' = err
    /\ convOut' = conv
    /\ normStatus' = (IF err = "none" THEN "ok" ELSE "failed")
    /\ pc' = AfterNormalize(err)

\* processFileConversion, step 1: copy a PDF, convert anything else.
Normalize ==
    /\ pc = "normalize"
    /\ variant \in Orchestrated
    /\ IF ext = ".pdf"
       THEN \E copied \in BOOLEAN :
                LET c == CopyFile(copied)
                IN  NormalizeEnds(c.file, c.error, "none")
       ELSE IF ~libreOfficeConvert
       THEN NormalizeEnds("absent", "unsupported", "none")
       ELSE \E out \in ConvOutcomes :
                LET r == ConvertToPDF(libreOfficeConvert, out)
                IN  NormalizeEnds(r.file, r.error, out)
    /\ UNCHANGED <<conf, intake, uploadExists, unlinks, dirExists, imgDir, cfgIdx,
                   results, lastError, imageFiles, result, respStatus, responses,
                   respSuccess, attempts, rastStatus, rastError, published>>

\* An orchestrator without `if (pdf2pic)`: convertPDFToImages is entered and
\* its own guard throws inside the try block.
RasterEntryUnguarded(loaded) == IF loaded THEN "enter" ELSE "guard_throws"

\* `if (pdf2pic) { try { imageFiles = await convertPDFToImages(...) } ... }`:
\* without the module step 2 is skipped and the guard inside
\* convertPDFToImages is never reached.
RasterEntry(loaded) == IF loaded THEN "enter" ELSE "skip"

\* processFileConversion, step 2, up to the loop of convertPDFToImages:
\* the pdf2pic guard, then the output directory is created.  A failing
\* mkdirSync throws inside the try block, whose catch runs the fallback.
RasterStart ==
    /\ pc = "raster"
    /\ variant = "v1"
    /\ IF RasterEntry(pdf2pic) = "skip"
       THEN /\ pc' = "assemble"
            /\ rastStatus' = "skipped"
            /\ UNCHANGED <<dirExists, imgDir, cfgIdx, error>>
       ELSE IF RasterEntry(pdf2pic) = "guard_throws"
       THEN /\ pc' = "fallback"
            /\ rastStatus' = "running"
            /\ error' = "module_not_loaded"
            /\ UNCHANGED <<dirExists, imgDir, cfgIdx>>
       ELSE \E made \in BOOLEAN :
              /\ dirExists' = made
              /\ rastStatus' = "running"
              /\ IF made
                 THEN /\ pc' = "config"
                      /\ cfgIdx' = 1
                      /\ imgDir' \in FoundInDir
                      /\ UNCHANGED error
                 ELSE /\ pc' = "fallback"
                      /\ error' = "mkdir_failed"
                      /\ UNCHANGED <<cfgIdx, imgDir>>
    /\ UNCHANGED <<conf, intake, uploadExists, unlinks, pdfFile, results,
                   lastError, imageFiles, result, respStatus, responses, respSuccess,
                   convOut, attempts, normStatus, rastError, published>>

\* One pass of the loop over configs: pdf2pic.fromPath(...).bulk(-1).
TryConfig ==
    /\ pc = "config"
    /\ \E out \in RenderOutcomes :
         LET success == ~out.throws /\ out.k > 0
         IN  /\ attempts' = Append(attempts, [tag |-> CfgTag(cfgIdx), out |-> out])
             /\ imgDir' = WriteFiles(imgDir, out, CfgNames(out.k))
             /\ results' = IF out.throws THEN results
                           ELSE [null |-> FALSE,
                                 files |-> CfgNames(out.k)]
             /\ lastError' = IF out.throws THEN CfgError(cfgIdx) ELSE lastError
             /\ IF LoopContinues(success, cfgIdx)
                THEN /\ cfgIdx' = cfgIdx + 1
                     /\ pc' = "config"
                ELSE /\ cfgIdx' = cfgIdx
                     /\ pc' = "validate"
    /\ UNCHANGED <<conf, intake, uploadExists, unlinks, pdfFile, dirExists, error,
                   imageFiles, result, respStatus, responses, respSuccess, convOut,
                   normStatus, rastStatus, rastError, published>>

\* convertPDFToImages after the loop: no results is an error, the results
\* are filtered by existence, none left is an error, else they are returned.
Validate ==
    /\ pc = "validate"
    /\ variant = "v1"
    /\ IF results.null \/ Len(results.files) = 0
       THEN /\ error' = PhaseError(lastError)
            /\ pc' = "fallback"
            /\ UNCHANGED <<imageFiles, rastStatus>>
       ELSE LET valid == ValidImages(results.files, imgDir)
            IN  IF Len(valid) = 0
                THEN /\ error' = "no_valid_files"
                     /\ pc' = "fallback"
                     /\ UNCHANGED <<imageFiles, rastStatus>>
                ELSE /\ imageFiles' = valid
                     /\ rastStatus' = "ok"
                     /\ pc' = "assemble"
                     /\ UNCHANGED error
    /\ UNCHANGED <<conf, intake, uploadExists, unlinks, pdfFile, dirExists, imgDir,
                   cfgIdx, results, lastError, result, respStatus, responses,
                   respSuccess, convOut, attempts, normStatus, rastError,
                   published>>

\* An orchestrator that never assigns what step 2 returned.
OrchestratorImagesLost(threw, returned) == <<>>

\* What the orchestrator keeps of step 2: the list convertPDFToImages
\* returned, or the initial [] when it threw.
OrchestratorImages(threw, returned) == IF threw THEN <<>> ELSE returned

\* Why convertPDFUsingSystemCommand rejected: the command failed, or the
\* scan kept no file.
ShellError(out) ==
    IF out.throws THEN "shell_command_failed" ELSE "shell_no_valid_files"

\* A catch block that throws what the fallback rejected with.
FallbackFailureOwn(original, fallbackError) == fallbackError

\* `catch (fallbackError) { throw error; }`: the error that entered the
\* outer catch block is thrown, the fallback's is only logged.
FallbackFailure(original, fallbackError) == original

\* The catch block of convertPDFToImages: convertPDFUsingSystemCommand runs
\* `convert`, scans the directory and resolves with the valid files; when it
\* rejects, the original error is thrown to processFileConversion, which
\* catches it and goes on without images.
SystemFallback ==
    /\ pc = "fallback"
    /\ variant = "v1"
    /\ \E out \in RenderOutcomes :
         /\ ~dirExists => (out.throws /\ out.k = 0)
         /\ attempts' = Append(attempts, [tag |-> "shell", out |-> out])
         /\ imgDir' = WriteFiles(imgDir, out, ShellNames(out.k))
         /\ LET scanned == IF out.throws THEN <<>> ELSE SystemScan(imgDir')
                threw == Len(scanned) = 0
            IN  /\ imageFiles' = OrchestratorImages(threw, scanned)
                /\ rastStatus' = (IF threw THEN "failed" ELSE "ok")
                /\ rastError' = (IF threw
                                 THEN FallbackFailure(error, ShellError(out))
                                 ELSE "none")
    /\ error' = "none"
    /\ pc' = "assemble"
    /\ UNCHANGED <<conf, intake, uploadExists, unlinks, pdfFile, dirExists, cfgIdx,
                   results, lastError, result, respStatus, responses, respSuccess,
                   convOut, normStatus, published>>

\* processFileConversion builds and returns its result.
Assemble ==
    /\ pc = "assemble"
    /\ variant \in Orchestrated
    /\ result' = BuildResult(pdfFile, imageFiles)
    /\ pc' = "publish"
    /\ UNCHANGED <<conf, intake, uploadExists, unlinks, pdfFile, dirExists, imgDir,
                   cfgIdx, results, lastError, error, imageFiles, respStatus, responses,
                   respSuccess, convOut, attempts, normStatus, rastStatus,
                   rastError, published>>

\* sendLineStyleMessageToN8N: every failure is caught inside it.
Publish ==
    /\ pc = "publish"
    /\ variant \in Orchestrated
    /\ \E sent \in PublishOutcomes :
         /\ published' = PublishCall(published, result, sent)
         /\ pc' = AfterPublish(sent)
    /\ UNCHANGED <<conf, intake, uploadExists, unlinks, pdfFile, dirExists, imgDir,
                   cfgIdx, results, lastError, error, imageFiles, result,
                   respStatus, responses, respSuccess, convOut, attempts, normStatus,
                   rastStatus, rastError>>

\* The upload is removed unless KEEP_ORIGINAL_FILES, then res.json(result).
Respond ==
    /\ pc = "respond"
    /\ variant \in Orchestrated
    /\ IF keepOriginal
       THEN UNCHANGED <<uploadExists, unlinks>>
       ELSE \E unlinked \in BOOLEAN :
              /\ uploadExists' = ~unlinked
              /\ unlinks' = (IF unlinked THEN "removed" ELSE "failed")
    /\ respStatus' = 200
    /\ responses' = responses + 1
    /\ respSuccess' = TRUE
    /\ pc' = "done"
    /\ UNCHANGED <<conf, intake, pdfFile, dirExists, imgDir, cfgIdx, results,
                   lastError, error, imageFiles, result, convOut, attempts,
                   normStatus, rastStatus, rastError, published>>

\* The handler's catch block: the upload is removed, the answer is a 500.
HandleError ==
    /\ pc = "catch"
    /\ variant \in ServerJs \cup Orchestrated
    /\ \E unlinked \in BOOLEAN :
         /\ uploadExists' = (uploadExists /\ ~unlinked)
         /\ unlinks' = (IF ~uploadExists THEN unlinks
                        ELSE IF unlinked THEN "removed" ELSE "failed")
    /\ respStatus' = 500
    /\ responses' = responses + 1
    /\ respSuccess' = FALSE
    /\ pc' = "done"
    /\ UNCHANGED <<conf, intake, pdfFile, dirExists, imgDir, cfgIdx, results,
                   lastError, error, imageFiles, result, convOut, attempts,
                   normStatus, rastStatus, rastError, published>>

\* =========================================== src/server.js, lines 1418-2100

\* The `result` object of processFileConversion (second variant).
BuildResultV2(pdf, converted, files) ==
    [kind |-> "result",
     pdf |-> pdf,
     isConverted |-> converted,
     count |-> Len(files),
     downloadUrl |-> "folder",
     files |-> PageFiles(files)]

\* processFileConversion, step 1: copy a PDF, convertToPDF anything else.
V2Normalize ==
    /\ pc = "normalize"
    /\ variant = "v2"
    /\ IF ext = ".pdf"
       THEN \E copied \in BOOLEAN :
                LET c == CopyFile(copied)
                IN  NormalizeEnds(c.file, c.error, "none")
       ELSE \E out \in (IF libreOfficeConvert THEN ConvOutcomes ELSE {"none"}) :
                LET r == ConvertToPDF(libreOfficeConvert, out)
                IN  NormalizeEnds(r.file, r.error, out)
    /\ UNCHANGED <<conf, intake, uploadExists, unlinks, dirExists, imgDir, cfgIdx,
                   results, lastError, imageFiles, result, respStatus, responses,
                   respSuccess, attempts, rastStatus, rastError, published>>

\* Step 2 ended by throwing: convertPDFToImages and processFileConversion
\* both rethrow, the handler's catch block is next.
V2RasterThrows(err) ==
    /\ error' = err
    /\ rastError' = err
    /\ rastStatus' = "failed"
    /\ pc' = "catch"

\* convertPDFToImages up to the renderer call: the module must be loaded
\* and the output directory is created.
V2RasterStart ==
    /\ pc = "raster"
    /\ variant = "v2"
    /\ IF ~pdf2pic
       THEN /\ V2RasterThrows("module_not_loaded")
            /\ UNCHANGED dirExists
       ELSE \E made \in BOOLEAN :
              /\ dirExists' = made
              /\ IF made
                 THEN /\ pc' = "render"
                      /\ rastStatus' = "running"
                      /\ UNCHANGED <<error, rastError>>
                 ELSE V2RasterThrows("mkdir_failed")
    /\ UNCHANGED <<conf, intake, uploadExists, unlinks, pdfFile, imgDir, cfgIdx,
                   results, lastError, imageFiles, result, respStatus, responses,
                   respSuccess, convOut, attempts, normStatus, published>>

\* convert.bulk(-1) with the one configuration; its paths are returned as
\* they are.
V2Render ==
    /\ pc = "render"
    /\ \E out \in RenderOutcomes :
         /\ attempts' = Append(attempts, [tag |-> "config1", out |-> out])
         /\ imgDir' = WriteFiles(imgDir, out, CfgNames(out.k))
         /\ IF out.throws
            THEN /\ V2RasterThrows("config1_threw")
                 /\ UNCHANGED <<results, imageFiles>>
            ELSE /\ results' = [null |-> FALSE,
                                files |-> CfgNames(out.k)]
                 /\ IF out.k = 0
                    THEN /\ V2RasterThrows("no_images")
                         /\ UNCHANGED imageFiles
                    ELSE /\ imageFiles' = results'.files
                         /\ rastStatus' = "ok"
                         /\ pc' = "assemble"
                         /\ UNCHANGED <<error, rastError>>
    /\ UNCHANGED <<conf, intake, uploadExists, unlinks, pdfFile, dirExists, cfgIdx,
                   lastError, result, respStatus, responses, respSuccess, convOut,
                   normStatus, published>>

V2Assemble ==
    /\ pc = "assemble"
    /\ variant = "v2"
    /\ result' = BuildResultV2(pdfFile, ext # ".pdf", imageFiles)
    /\ pc' = "publish"
    /\ UNCHANGED <<conf, intake, uploadExists, unlinks, pdfFile, dirExists, imgDir,
                   cfgIdx, results, lastError, error, imageFiles, respStatus, responses,
                   respSuccess, convOut, attempts, normStatus, rastStatus,
                   rastError, published>>

\* sendNotificationToLineBot (and the optional sendLineMessage): both catch
\* every failure and return a boolean.
V2Publish ==
    /\ pc = "publish"
    /\ variant = "v2"
    /\ \E sent \in PublishOutcomes :
         published' = PublishCall(published, result, sent)
    /\ pc' = "respond"
    /\ UNCHANGED <<conf, intake, uploadExists, unlinks, pdfFile, dirExists, imgDir,
                   cfgIdx, results, lastError, error, imageFiles, result,
                   respStatus, responses, respSuccess, convOut, attempts, normStatus,
                   rastStatus, rastError>>

\* res.json(result); the upload is kept.
V2Respond ==
    /\ pc = "respond"
    /\ variant = "v2"
    /\ respStatus' = 200
    /\ responses' = responses + 1
    /\ respSuccess' = TRUE
    /\ pc' = "done"
    /\ UNCHANGED <<conf, intake, uploadExists, unlinks, pdfFile, dirExists, imgDir,
                   cfgIdx, results, lastError, error, imageFiles, result,
                   convOut, attempts, normStatus, rastStatus, rastError,
                   published>>

\* ==================================================== src/unnamed/part_005

PopplerName(p) == [pfx |-> TRUE, sep |-> "-", page |-> p]

\* convertToPDF of part_005 returns a boolean: a PDF is copied, a Word file
\* goes through mammoth and puppeteer; every error is caught.
P5ConvertToPDF(e, fine, out) ==
    IF e = ".pdf"
    THEN [file |-> IF fine THEN "copy" ELSE "absent", ok |-> fine]
    ELSE IF out = "throws" THEN [file |-> "absent", ok |-> FALSE]
    ELSE IF out = "empty" THEN [file |-> "empty", ok |-> TRUE]
    ELSE [file |-> "converted", ok |-> TRUE]

\* The handler's step 1: a failed conversion is answered with
\* res.json({ success: false }), which carries the default status 200.
P5Normalize ==
    /\ pc = "p5_normalize"
    /\ \E fine \in (IF ext = ".pdf" THEN BOOLEAN ELSE {TRUE}),
          out \in (IF ext = ".pdf" THEN {"none"} ELSE ConvOutcomes) :
         LET r == P5ConvertToPDF(ext, fine, out)
         IN  /\ pdfFile' = r.file
             /\ convOut' = out
             /\ IF r.ok /\ r.file # "absent"
                THEN /\ normStatus' = "ok"
                     /\ pc' = "p5_mkdir"
                     /\ UNCHANGED <<respStatus, responses, respSuccess>>
                ELSE /\ normStatus' = "failed"
                     /\ pc' = "done"
                     /\ respStatus' = 200
                     /\ responses' = responses + 1
                     /\ respSuccess' = FALSE
    /\ UNCHANGED <<conf, intake, uploadExists, unlinks, dirExists, imgDir, cfgIdx,
                   results, lastError, error, imageFiles, result, attempts,
                   rastStatus, rastError, published>>

\* The image folder is created in the handler itself, outside any inner
\* try block.
P5MakeDir ==
    /\ pc = "p5_mkdir"
    /\ \E made \in BOOLEAN :
         /\ dirExists' = made
         /\ IF made
            THEN /\ pc' = "p5_convert"
                 /\ UNCHANGED error
            ELSE /\ pc' = "p5_catch"
                 /\ error' = "mkdir_failed"
    /\ UNCHANGED <<conf, intake, uploadExists, unlinks, pdfFile, imgDir, cfgIdx,
                   results, lastError, imageFiles, result, respStatus, responses,
                   respSuccess, convOut, attempts, normStatus, rastStatus,
                   rastError, published>>

\* convertPDFToImages of part_005: poppler, then the sorted names of the
\* folder that start with the prefix; [] when anything threw.
P5Convert ==
    /\ pc = "p5_convert"
    /\ \E out \in RenderOutcomes :
         /\ attempts' = Append(attempts, [tag |-> "poppler", out |-> out])
         /\ imgDir' = WriteFiles(imgDir, out, [p \in 1..out.k |-> PopplerName(p)])
         /\ imageFiles' = IF out.throws THEN <<>>
                          ELSE SortNames({f \in DOMAIN imgDir' : f.pfx})
         /\ IF Len(imageFiles') = 0
            THEN /\ pc' = "p5_thumb"
                 /\ rastStatus' = "running"
            ELSE /\ pc' = "p5_publish"
                 /\ rastStatus' = "ok"
    /\ UNCHANGED <<conf, intake, uploadExists, unlinks, pdfFile, dirExists, cfgIdx,
                   results, lastError, error, result, respStatus, responses,
                   respSuccess, convOut, normStatus, rastError, published>>

\* createPDFThumbnail: a placeholder picture, or [] when sharp threw.
P5Thumbnail ==
    /\ pc = "p5_thumb"
    /\ \E drawn \in BOOLEAN :
         /\ attempts' = Append(attempts,
                [tag |-> "thumbnail",
                 out |-> [throws |-> ~drawn, k |-> 0, disk |-> <<>>]])
         /\ imgDir' = IF drawn
                      THEN [f \in (DOMAIN imgDir) \cup {ThumbName} |->
                               IF f = ThumbName THEN MinValidSize + 1
                               ELSE imgDir[f]]
                      ELSE imgDir
         /\ imageFiles' = IF drawn THEN <<ThumbName>> ELSE <<>>
         /\ rastStatus' = IF drawn THEN "ok" ELSE "failed"
    /\ pc' = "p5_publish"
    /\ UNCHANGED <<conf, intake, uploadExists, unlinks, pdfFile, dirExists, cfgIdx,
                   results, lastError, error, result, respStatus, responses,
                   respSuccess, convOut, normStatus, rastError, published>>

\* The response object is built and the webhook is triggered.
P5Publish ==
    /\ pc = "p5_publish"
    /\ result' = [kind |-> "result", pdf |-> pdfFile,
                  count |-> Len(imageFiles), files |-> imageFiles]
    /\ \E sent \in PublishOutcomes :
         published' = Append(published, [with |-> result', outcome |-> sent])
    /\ pc' = "p5_respond"
    /\ UNCHANGED <<conf, intake, uploadExists, unlinks, pdfFile, dirExists, imgDir,
                   cfgIdx, results, lastError, error, imageFiles, respStatus, responses,
                   respSuccess, convOut, attempts, normStatus, rastStatus,
                   rastError>>

P5Respond ==
    /\ pc = "p5_respond"
    /\ respStatus' = 200
    /\ responses' = responses + 1
    /\ respSuccess' = TRUE
    /\ pc' = "done"
    /\ UNCHANGED <<conf, intake, uploadExists, unlinks, pdfFile, dirExists, imgDir,
                   cfgIdx, results, lastError, error, imageFiles, result,
                   convOut, attempts, normStatus, rastStatus, rastError,
                   published>>

\* The handler's catch block of part_005.
P5HandleError ==
    /\ pc = "p5_catch"
    /\ respStatus' = 500
    /\ responses' = responses + 1
    /\ respSuccess' = FALSE
    /\ pc' = "done"
    /\ UNCHANGED <<conf, intake, uploadExists, unlinks, pdfFile, dirExists, imgDir,
                   cfgIdx, results, lastError, error, imageFiles, result,
                   convOut, attempts, normStatus, rastStatus, rastError,
                   published>>

\* ==================================================== src/unnamed/part_008
\* The handler, the Normalizer and the orchestrator are those of the first
\* variant; convertPDFToImages differs: the shell fallback is called after
\* the loop, and only when the loop left no results, and the outer catch
\* block rethrows.

\* Step 2 ended by throwing; processFileConversion catches and goes on.
P8RasterFails(err) ==
    /\ rastStatus' = "failed"
    /\ rastError' = err
    /\ pc' = "assemble"

\* The pdf2pic guard of the orchestrator, then the directory is created.
P8RasterStart ==
    /\ pc = "raster"
    /\ variant = "p8"
    /\ IF ~pdf2pic
       THEN /\ pc' = "assemble"
            /\ rastStatus' = "skipped"
            /\ UNCHANGED <<dirExists, cfgIdx, rastError>>
       ELSE \E made \in BOOLEAN :
              /\ dirExists' = made
              /\ IF made
                 THEN /\ pc' = "config"
                      /\ cfgIdx' = 1
                      /\ rastStatus' = "running"
                      /\ UNCHANGED rastError
                 ELSE /\ P8RasterFails("mkdir_failed")
                      /\ UNCHANGED cfgIdx
    /\ UNCHANGED <<conf, intake, uploadExists, unlinks, pdfFile, imgDir, results,
                   lastError, error, imageFiles, result, respStatus, responses,
                   respSuccess, convOut, attempts, normStatus, published>>

\* After the loop: without results the shell fallback is next; with results
\* the existing paths are returned, and none existing is an error.
P8Validate ==
    /\ pc = "validate"
    /\ variant = "p8"
    /\ IF results.null \/ Len(results.files) = 0
       THEN /\ pc' = "fallback"
            /\ UNCHANGED <<imageFiles, rastStatus, rastError>>
       ELSE LET valid == ValidImages(results.files, imgDir)
            IN  IF Len(valid) = 0
                THEN /\ P8RasterFails("no_valid_files")
                     /\ UNCHANGED imageFiles
                ELSE /\ imageFiles' = valid
                     /\ rastStatus' = "ok"
                     /\ pc' = "assemble"
                     /\ UNCHANGED rastError
    /\ UNCHANGED <<conf, intake, uploadExists, unlinks, pdfFile, dirExists, imgDir,
                   cfgIdx, results, lastError, error, result, respStatus, responses,
                   respSuccess, convOut, attempts, normStatus, published>>

\* `return await convertPDFUsingSystemCommand(...)`, and when it rejects
\* `throw lastError || fallbackError`.
P8SystemFallback ==
    /\ pc = "fallback"
    /\ variant = "p8"
    /\ \E out \in RenderOutcomes :
         /\ attempts' = Append(attempts, [tag |-> "shell", out |-> out])
         /\ imgDir' = WriteFiles(imgDir, out, ShellNames(out.k))
         /\ LET scanned == IF out.throws THEN <<>> ELSE SystemScan(imgDir')
                threw == Len(scanned) = 0
            IN  /\ imageFiles' = OrchestratorImages(threw, scanned)
                /\ rastStatus' = (IF threw THEN "failed" ELSE "ok")
                /\ rastError' = (IF ~threw THEN "none"
                                 ELSE IF lastError # "none" THEN lastError
                                 ELSE "fallback_failed")
    /\ pc' = "assemble"
    /\ UNCHANGED <<conf, intake, uploadExists, unlinks, pdfFile, dirExists, cfgIdx,
                   results, lastError, error, result, respStatus, responses,
                   respSuccess, convOut, normStatus, published>>

\* ==================================== src/unnamed/part_004, lines 1802-1894
\* The ES-module server: multer({ dest }), no format check, soffice through
\* exec, and the handler itself is the orchestrator.

\* pdf2pic with saveFilename "page".
PageName(p) == [pfx |-> FALSE, sep |-> ".", page |-> p]

\* upload.single('file') as middleware.  A multer error goes to the default
\* error handler of express; without a file `req.file.path` throws inside
\* the handler's try block.
P4Intake ==
    /\ pc = "start"
    /\ listening
    /\ variant = "p4"
    /\ \E got \in {"error", "nofile", "stored"} :
         /\ intake' = got
         /\ uploadExists' = (got = "stored")
         /\ UNCHANGED unlinks
         /\ IF got = "stored"
            THEN /\ pc' = "p4_normalize"
                 /\ UNCHANGED <<error, respStatus, responses, respSuccess>>
            ELSE IF got = "nofile"
            THEN /\ pc' = "catch"
                 /\ error' = "no_file"
                 /\ UNCHANGED <<respStatus, responses, respSuccess>>
            ELSE /\ pc' = "done"
                 /\ respStatus' = 500
                 /\ responses' = responses + 1
                 /\ respSuccess' = FALSE
                 /\ UNCHANGED error
    /\ UNCHANGED <<conf, pdfFile, dirExists, imgDir, cfgIdx, results,
                   lastError, imageFiles, result, convOut, attempts,
                   normStatus, rastStatus, rastError, published>>

\* Step 1.  A PDF is moved to pdfPath with renameSync.  Anything else goes
\* to `libreoffice --headless --convert-to pdf "<upload>" --outdir uploads`,
\* which writes uploads/<name of the upload>.pdf: pdfPath, made from
\* Date.now(), is not passed to the command and nothing is written there.
P4Normalize ==
    /\ pc = "p4_normalize"
    /\ IF ext = ".pdf"
       THEN \E moved \in BOOLEAN :
              /\ pdfFile' = (IF moved THEN "copy" ELSE "absent")
              /\ uploadExists' = ~moved
              /\ UNCHANGED unlinks
              /\ normStatus' = (IF moved THEN "ok" ELSE "failed")
              /\ error' = (IF moved THEN "none" ELSE "rename_failed")
              /\ pc' = (IF moved THEN "p4_render" ELSE "catch")
              /\ UNCHANGED convOut
       ELSE \E out \in ConvOutcomes :
              /\ convOut' = out
              /\ normStatus' = (IF out = "throws" THEN "failed" ELSE "ok")
              /\ error' = (IF out = "throws" THEN "convert_failed" ELSE "none")
              /\ pc' = (IF out = "throws" THEN "catch" ELSE "p4_render")
              /\ UNCHANGED <<pdfFile, uploadExists, unlinks>>
    /\ UNCHANGED <<conf, intake, dirExists, imgDir, cfgIdx, results,
                   lastError, imageFiles, result, respStatus, responses, respSuccess,
                   attempts, rastStatus, rastError, published>>

\* Step 2: mkdirSync(imageDir), then convertPDFToImages(pdfPath, imageDir)
\* resolves when bulk(-1) did; the handler lists the directory.  pdf2pic
\* cannot read a file that is not there.
P4Render ==
    /\ pc = "p4_render"
    /\ \E made \in BOOLEAN, out \in RenderOutcomes :
         /\ (pdfFile = "absent" \/ ~made) => (out.throws /\ out.k = 0)
         /\ dirExists' = made
         /\ attempts' = IF made
                        THEN Append(attempts, [tag |-> "pdf2pic", out |-> out])
                        ELSE attempts
         /\ imgDir' = WriteFiles(imgDir, out, [p \in 1..out.k |-> PageName(p)])
         /\ IF out.throws
            THEN /\ rastStatus' = "failed"
                 /\ rastError' = (IF made THEN "render_failed" ELSE "mkdir_failed")
                 /\ error' = rastError'
                 /\ pc' = "catch"
                 /\ UNCHANGED imageFiles
            ELSE /\ rastStatus' = "ok"
                 /\ imageFiles' = SortNames(DOMAIN imgDir')
                 /\ pc' = "p4_publish"
                 /\ UNCHANGED <<rastError, error>>
    /\ UNCHANGED <<conf, intake, uploadExists, unlinks, pdfFile, cfgIdx, results,
                   lastError, result, respStatus, responses, respSuccess, convOut,
                   normStatus, published>>

\* Steps 3 and 4: the PDF and the images are posted to the webhook; a
\* response that is not ok is thrown, otherwise res.json({ success: true }).
P4Publish ==
    /\ pc = "p4_publish"
    /\ result' = [kind |-> "result", pdf |-> pdfFile,
                  count |-> Len(imageFiles), files |-> imageFiles]
    /\ \E sent \in {"sent", "failed"} :
         /\ published' = PublishCall(published, result', sent)
         /\ IF sent = "sent"
            THEN /\ respStatus' = 200
                 /\ responses' = responses + 1
                 /\ respSuccess' = TRUE
                 /\ pc' = "p4_cleanup"
                 /\ UNCHANGED error
            ELSE /\ error' = "webhook_failed"
                 /\ pc' = "catch"
                 /\ UNCHANGED <<respStatus, responses, respSuccess>>
    /\ UNCHANGED <<conf, intake, uploadExists, unlinks, pdfFile, dirExists, imgDir,
                   cfgIdx, results, lastError, imageFiles, convOut, attempts,
                   normStatus, rastStatus, rastError>>

\* Step 5, after the response: cleanupFiles and rmSync of the image folder.
P4Cleanup ==
    /\ pc = "p4_cleanup"
    /\ \E removed \in BOOLEAN :
         IF removed
         THEN /\ pdfFile' = "absent"
              /\ imgDir' = <<>>
              /\ dirExists' = FALSE
              /\ pc' = "done"
              /\ UNCHANGED error
         ELSE /\ error' = "cleanup_failed"
              /\ pc' = "catch"
              /\ UNCHANGED <<pdfFile, imgDir, dirExists>>
    /\ UNCHANGED <<conf, intake, uploadExists, unlinks, cfgIdx, results, lastError,
                   imageFiles, result, respStatus, responses, respSuccess, convOut,
                   attempts, normStatus, rastStatus, rastError, published>>

\* The catch block calls res.status(500).json(...) whatever happened
\* before.  When the success response already went out the call throws
\* ERR_HTTP_HEADERS_SENT out of the catch block and the client keeps the
\* response it has.
P4HandleError ==
    /\ pc = "catch"
    /\ variant = "p4"
    /\ responses' = responses + 1
    /\ IF respStatus = 0
       THEN /\ respStatus' = 500
            /\ respSuccess' = FALSE
            /\ UNCHANGED error
       ELSE /\ error' = "headers_sent"
            /\ UNCHANGED <<respStatus, respSuccess>>
    /\ pc' = "done"
    /\ UNCHANGED <<conf, intake, uploadExists, unlinks, pdfFile, dirExists, imgDir,
                   cfgIdx, results, lastError, imageFiles, result,
                   convOut, attempts, normStatus, rastStatus, rastError,
                   published>>

\* ====================================================== child processes
\* The handler is suspended on a child process at these positions: soffice
\* behind convertAsync (or the browser behind puppeteer), GraphicsMagick
\* behind convert.bulk, `convert` behind exec, pdftocairo behind poppler.
AwaitsChild ==
    \/ pc \in {"config", "fallback", "render", "p5_convert"}
    \/ pc = "normalize" /\ ext # ".pdf" /\ libreOfficeConvert
    \/ pc = "p5_normalize" /\ ext # ".pdf"
    \/ pc = "p4_normalize" /\ ext # ".pdf"
    \/ pc = "p4_render"

\* The child never exits.  None of the calls passes a timeout and nothing
\* kills the child, so the promise the handler awaits is never settled.
ChildHangs ==
    /\ AwaitsChild
    /\ pc' = "hung"
    /\ UNCHANGED <<conf, intake, uploadExists, unlinks, pdfFile, dirExists, imgDir,
                   cfgIdx, results, lastError, error, imageFiles, result,
                   respStatus, responses, respSuccess, convOut, attempts, normStatus,
                   rastStatus, rastError, published>>

Next ==
    \/ Intake
    \/ PreCheck
    \/ Normalize
    \/ RasterStart
    \/ TryConfig
    \/ Validate
    \/ SystemFallback
    \/ Assemble
    \/ Publish
    \/ Respond
    \/ HandleError
    \/ V2Normalize
    \/ V2RasterStart
    \/ V2Render
    \/ V2Assemble
    \/ V2Publish
    \/ V2Respond
    \/ P5Normalize
    \/ P5MakeDir
    \/ P5Convert
    \/ P5Thumbnail
    \/ P5Publish
    \/ P5Respond
    \/ P5HandleError
    \/ P8RasterStart
    \/ P8Validate
    \/ P8SystemFallback
    \/ P4Intake
    \/ P4Normalize
    \/ P4Render
    \/ P4Publish
    \/ P4Cleanup
    \/ P4HandleError
    \/ ChildHangs

Spec == Init /\ [][Next]_vars

\* ================================================================ startup
\* initializeServer: loadConversionModules is awaited, then app.listen.

\* A server that listens without awaiting loadConversionModules.
CanListenEarly(step) == TRUE

\* `await loadConversionModules()` stands in front of app.listen.
CanListen(step) == step = "done"

\* checkSystemTools: `which gm`, `which convert`, ...; imageTools is false
\* when neither gm nor convert was found.
ProbeTools ==
    /\ probe.step = "tools"
    /\ \E found \in BOOLEAN :
         probe' = [step |-> "libre", imageTools |-> found]
    /\ UNCHANGED <<deploy, clock, jobs, listening, handler>>

\* require('libreoffice-convert') inside its try block.
LoadLibreOffice ==
    /\ probe.step = "libre"
    /\ \E loaded \in BOOLEAN : libreOfficeConvert' = loaded
    /\ probe' = [probe EXCEPT !.step = "pdf2pic"]
    /\ UNCHANGED <<variant, pdf2pic, keepOriginal, ext, clock, jobs,
                   listening, handler>>

\* require('pdf2pic') inside its try block, after the check that gm or
\* convert is there.
LoadPdf2pic ==
    /\ probe.step = "pdf2pic"
    /\ \E loaded \in BOOLEAN : pdf2pic' = (probe.imageTools /\ loaded)
    /\ probe' = [probe EXCEPT !.step = "done"]
    /\ UNCHANGED <<variant, libreOfficeConvert, keepOriginal, ext, clock,
                   jobs, listening, handler>>

\* app.listen(PORT, '0.0.0.0', ...)
Listen ==
    /\ ~listening
    /\ CanListen(probe.step)
    /\ listening' = TRUE
    /\ UNCHANGED <<deploy, clock, jobs, probe, handler>>

\* The process was just started: `let libreOfficeConvert; let pdf2pic;`.
BootInit ==
    /\ variant = "v1"
    /\ libreOfficeConvert = FALSE
    /\ pdf2pic = FALSE
    /\ keepOriginal \in BOOLEAN
    /\ ext \in Exts
    /\ clock = 0
    /\ jobs = [j \in JobIds |-> NewJob([name |-> "resume", ext |-> ext])]
    /\ probe = [step |-> "tools", imageTools |-> FALSE]
    /\ listening = FALSE
    /\ HandlerIdle

BootNext ==
    \/ ProbeTools
    \/ LoadLibreOffice
    \/ LoadPdf2pic
    \/ Listen
    \/ Intake
    \/ PreCheck
    \/ Normalize
    \/ RasterStart
    \/ TryConfig
    \/ Validate
    \/ SystemFallback
    \/ Assemble
    \/ Publish
    \/ Respond
    \/ HandleError
    \/ ChildHangs

BootSpec == BootInit /\ [][BootNext]_vars

\* ================================================ paths of concurrent jobs
\* Every request of the process runs the same path arithmetic against the
\* one clock; the jobs interleave at their awaits.

\* multer's filename callback: `${Date.now()}-${file.originalname}` in
\* uploadDir.  A path is kept as its parts: directory, timestamp, name and
\* extension (the timestamp is all digits, so the parts determine the string
\* and the string determines the parts).
UploadFilename(ts, f) == <<"uploads", ts, f.name, f.ext>>

\* processFileConversion: `${timestamp}-${originalName}.pdf` in pdfDir.
PdfPath(ts, f) == <<"pdfs", ts, f.name, ".pdf">>

\* processFileConversion: `${timestamp}-${originalName}` in imageDir.
ImageOutputDir(ts, f) == <<"images", ts, f.name, "">>

\* A millisecond passes.
Tick ==
    /\ clock < MaxClock
    /\ clock' = clock + 1
    /\ UNCHANGED <<deploy, jobs, startup, handler>>

\* multer stores the upload of job j.
StoreUpload(j) ==
    /\ jobs[j].stage = "new"
    /\ jobs' = [jobs EXCEPT ![j].stage = "stored",
                            ![j].uploadPath = UploadFilename(clock, jobs[j].file)]
    /\ UNCHANGED <<deploy, clock, startup, handler>>

\* processFileConversion of job j reads the clock and derives its paths.
StartConversion(j) ==
    /\ jobs[j].stage = "stored"
    /\ jobs' = [jobs EXCEPT ![j].stage = "converting",
                            ![j].pdfPath = PdfPath(clock, jobs[j].file),
                            ![j].imageOutputDir =
                                ImageOutputDir(clock, jobs[j].file)]
    /\ UNCHANGED <<deploy, clock, startup, handler>>

PathInit ==
    /\ variant = "v1"
    /\ libreOfficeConvert = TRUE
    /\ pdf2pic = TRUE
    /\ keepOriginal = FALSE
    /\ ext = ".pdf"
    /\ clock = 0
    /\ jobs \in {[j \in JobIds |-> NewJob(fs[j])] : fs \in [JobIds -> FileNames]}
    /\ probe = [step |-> "done", imageTools |-> TRUE]
    /\ listening = TRUE
    /\ HandlerIdle

PathNext ==
    \/ Tick
    \/ \E j \in JobIds : StoreUpload(j)
    \/ \E j \in JobIds : StartConversion(j)

PathSpec == PathInit /\ [][PathNext]_vars


\* ================================================================= claims

ImageNames(r) == [i \in 1..Len(r.files) |-> r.files[i].name]

\* C1: when every rasterization strategy failed after the Normalizer
\* produced its PDF, the finished job still has a result that carries the
\* PDF artifact and an empty image list, and the request is answered with
\* success.
C1_DegradedSuccess ==
    (variant \in ServerJs /\ pc = "done"
       /\ normStatus = "ok" /\ rastStatus = "failed")
    => /\ result.kind = "result"
       /\ result.pdf = pdfFile
       /\ pdfFile # "absent"
       /\ result.count = 0
       /\ result.files = <<>>
       /\ respStatus = 200

\* C2: once the Normalizer has failed (the copy or the office conversion
\* threw), there is no result, no renderer was ever invoked, the Result
\* Publisher was not invoked, and the request does not end in success.
C2_NormalizerFailureAborts ==
    normStatus = "failed"
    => /\ result = NoResult
       /\ rastStatus = "not_run"
       /\ attempts = <<>>
       /\ published = <<>>
       /\ ~respSuccess
       /\ pc \in {"catch", "done"}
       /\ (pc = "done" /\ variant \in ServerJs => respStatus = 500)

C2_Witness ==
    /\ variant = "v1"
    /\ pc = "done"
    /\ normStatus = "failed"
    /\ convOut = "throws"
    /\ respStatus = 500

\* C3: for a stored upload, a job that produced a result (with or without
\* images) is answered with status 200, and an error status is only ever
\* sent when the Normalizer level failed (it threw, or the conversion is
\* unavailable).
C3_StatusByOutcome ==
    (variant \in {"v1", "p5"} /\ pc = "done" /\ intake = "stored")
    => /\ (result.kind = "result" => respStatus = 200)
       /\ (respStatus >= 400
             => \/ normStatus = "failed"
                \/ (ext # ".pdf" /\ ~libreOfficeConvert))

\* C4: every path the rasterizer of the first variant returned names a file
\* that is on disk and larger than 100 bytes.
C4_ReturnedFilesValid ==
    (variant = "v1" /\ rastStatus = "ok")
    => \A i \in DOMAIN imageFiles :
          /\ imageFiles[i] \in DOMAIN imgDir
          /\ imgDir[imageFiles[i]] > MinValidSize

\* The attempt with configuration 1 succeeded: it returned at least one
\* file and every file it claimed is on disk with a size above 0.
Config1Succeeded ==
    /\ Len(attempts) >= 1
    /\ attempts[1].tag = "config1"
    /\ ~attempts[1].out.throws
    /\ attempts[1].out.k > 0
    /\ \A p \in 1..attempts[1].out.k : attempts[1].out.disk[p] > 0

\* C5: if the attempt with configuration 1 succeeded, neither configuration
\* 2 nor the shell fallback is ever invoked for the job.
C5_FirstSuccessWins ==
    (variant = "v1" /\ Config1Succeeded)
    => \A i \in DOMAIN attempts : attempts[i].tag \notin {"config2", "shell"}

C5_Witness ==
    /\ variant = "v1"
    /\ pc = "done"
    /\ Config1Succeeded
    /\ Len(attempts) = 1
    /\ result.count = attempts[1].out.k

\* The valid files a shell invocation wrote.
ShellValidFiles(out) ==
    {ShellName(p) : p \in {q \in 1..out.k : out.disk[q] > MinValidSize}}

\* The shell fallback ran after the configured phase failed and produced
\* at least one valid file.
ShellProduced(a) ==
    /\ a.tag = "shell"
    /\ ~a.out.throws
    /\ ShellValidFiles(a.out) # {}

C7_PagesContiguous ==
    (variant \in ServerJs /\ result.kind = "result")
    => /\ Len(result.files) = result.count
       /\ \A i \in DOMAIN result.files : result.files[i].page = i

C7_Witness ==
    /\ variant = "v1"
    /\ result.kind = "result"
    /\ result.count = 2
    /\ result.files[1].page = 1
    /\ result.files[2].page = 2

\* C8: a stored upload that is not a PDF, with the office converter not
\* loaded, is answered with a 4xx status.
C8_Unavailable4xx ==
    (variant \in ServerJs /\ pc = "done" /\ intake = "stored"
       /\ ext # ".pdf" /\ ~libreOfficeConvert)
    => respStatus \in 400..499

\* C9: for a non-PDF input with the office converter not loaded, the
\* Normalizer never succeeds, nothing is ever at the destination PDF path,
\* no result is produced and the request ends in an error.
C9_UnavailableLeavesNoFile ==
    (variant \in ServerJs /\ ext # ".pdf" /\ ~libreOfficeConvert)
    => /\ normStatus # "ok"
       /\ pdfFile = "absent"
       /\ result = NoResult
       /\ (pc = "done" /\ intake = "stored" => respStatus >= 400)

C9_Witness ==
    /\ variant = "v2"
    /\ ext # ".pdf"
    /\ ~libreOfficeConvert
    /\ pc = "done"
    /\ normStatus = "failed"
    /\ error = "module_not_loaded"

\* C10: when the office conversion threw or resolved with an empty result,
\* convertToPDF has failed and nothing is at the destination PDF path.
C10_NoPartialPdf ==
    (variant \in ServerJs /\ convOut \in {"throws", "empty"})
    => /\ normStatus = "failed"
       /\ pdfFile = "absent"

C12_ConvertedNonEmpty ==
    (variant \in ServerJs /\ ext # ".pdf" /\ libreOfficeConvert
       /\ normStatus = "ok")
    => /\ pdfFile = "converted"
       /\ (result.kind = "result" /\ variant = "v2"
             => result.isConverted = TRUE)

\* C13: any two jobs of the process have different stored upload paths,
\* different PDF paths and different image output directories, whatever
\* their original names and the milliseconds they arrived in.
C13_PathsDistinct ==
    \A j, k \in JobIds :
        j # k
        => /\ (jobs[j].stage # "new" /\ jobs[k].stage # "new"
                 => jobs[j].uploadPath # jobs[k].uploadPath)
           /\ (jobs[j].stage = "converting" /\ jobs[k].stage = "converting"
                 => /\ jobs[j].pdfPath # jobs[k].pdfPath
                    /\ jobs[j].imageOutputDir # jobs[k].imageOutputDir)

\* C14: whenever the first variant has answered a request whose upload was
\* stored (success, 400 for a conversion that is not available, or 500), with
\* KEEP_ORIGINAL_FILES not 'true', the stored upload is no longer on disk.
C14_UploadRemoved ==
    (variant = "v1" /\ pc = "done" /\ intake = "stored" /\ ~keepOriginal)
    => ~uploadExists

\* C15: a request to the first variant always completes, even when a child
\* process never exits: in every state the response has been sent or the
\* handler has a step left to take.
C15_RequestCompletes == variant = "v1" => (pc = "done" \/ ENABLED Next)

\* C16: in the first variant the Result Publisher is invoked at most once
\* per job, only after processFileConversion returned and with the result it
\* returned; a request answered with success had exactly one invocation, a
\* request whose processFileConversion threw had none.
C16_PublishedOnce ==
    variant = "v1"
    => /\ Len(published) <= 1
       /\ (published # <<>>
             => /\ result.kind = "result"
                /\ published[1].with = result
                /\ normStatus = "ok"
                /\ pc \in {"respond", "done"})
       /\ (pc = "respond" \/ (pc = "done" /\ respStatus = 200)
             => Len(published) = 1)
       /\ (normStatus = "failed" \/ (pc = "done" /\ respStatus # 200)
             => published = <<>>)

C16_Witness ==
    /\ variant = "v1"
    /\ pc = "done"
    /\ respStatus = 200
    /\ Len(published) = 1
    /\ published[1].with = result
    /\ published[1].outcome = "failed"
    /\ result.count = 1

\* A configured attempt failed in one of the three ways: it threw, it
\* returned no file, or none of the files it returned is on disk with a
\* size above 0.
AttemptFailed(a) ==
    \/ a.out.throws
    \/ a.out.k = 0
    \/ \A p \in 1..a.out.k : a.out.disk[p] <= 0

\* C17: once the rasterizer of a variant with a shell fallback has finished
\* (its output directory was created), every failed attempt with
\* configuration i < NumConfigs is followed by the attempt with
\* configuration i + 1, and a shell attempt comes only after all NumConfigs
\* configurations were attempted.
C17_NextConfigOnFailure ==
    (variant \in Orchestrated /\ dirExists /\ rastStatus \in {"ok", "failed"})
    => \A i \in DOMAIN attempts :
          /\ (attempts[i].tag = "config1" /\ AttemptFailed(attempts[i])
                => /\ i + 1 \in DOMAIN attempts
                   /\ attempts[i + 1].tag = "config2")
          /\ (attempts[i].tag = "shell" => i = NumConfigs + 1)

\* The attempt claimed at least one file and every file it claimed is on
\* disk with a size above 0.
AttemptComplete(a) ==
    /\ ~a.out.throws
    /\ a.out.k > 0
    /\ \A p \in 1..a.out.k : a.out.disk[p] > 0

\* C18: when the rasterizer ended in success on a configured attempt (the
\* shell fallback did not run), that attempt returned at least one file and
\* every file it claimed exists with a size above 0.
C18_SuccessNeedsAllFiles ==
    (variant = "v1" /\ rastStatus = "ok" /\ attempts # <<>>
       /\ attempts[Len(attempts)].tag # "shell")
    => AttemptComplete(attempts[Len(attempts)])

\* The page of the document a file name stands for: pdf2pic numbers its
\* output from 1, `convert` numbers its `%d` output from 0.
RendererPage(f) == IF f.sep = "." THEN f.page ELSE f.page + 1

\* C19: every image of the result carries as its page the page of the
\* document its file was rendered from.
C19_PageMatchesRenderer ==
    (variant = "v1" /\ result.kind = "result")
    => \A i \in DOMAIN result.files :
          result.files[i].page = RendererPage(result.files[i].name)

\* The handler is in step 2: the rasterizer is about to be called or runs.
Rasterizing ==
    pc \in {"raster", "config", "validate", "fallback", "p4_render"}

\* C20: the Rasterizer starts only after the Normalizer completed, and
\* while it runs the PDF file of the job exists at pdfPath; the result names
\* that one file.
C20_PdfBeforeRaster ==
    variant \in {"v1", "p4"}
    => /\ (Rasterizing \/ rastStatus # "not_run" \/ attempts # <<>>
             => normStatus = "ok")
       /\ (Rasterizing => pdfFile # "absent")
       /\ (variant = "v1" /\ result.kind = "result"
             => result.pdf = pdfFile /\ pdfFile # "absent")

\* The files a shell invocation wrote, whatever their size.
ShellWritten(out) ==
    {ShellName(p) : p \in {q \in 1..out.k : out.disk[q] # Absent}}

\* C21: when the rasterizer of the first variant ended in success through
\* the shell fallback, every file it returned was written by the shell
\* command itself; files the configured attempts left behind are not among
\* them.
C21_FallbackOnlyNewFiles ==
    (variant = "v1" /\ rastStatus = "ok" /\ attempts # <<>>
       /\ attempts[Len(attempts)].tag = "shell")
    => Range(imageFiles) \subseteq ShellWritten(attempts[Len(attempts)].out)

\* The last renderer invoked for the job was the shell command.
ShellRanLast ==
    /\ attempts # <<>>
    /\ attempts[Len(attempts)].tag = "shell"

\* C22: after the shell fallback of the first variant, if the directory
\* holds a file with the prefix (of whatever size) no file without the
\* prefix is returned; if it holds none and the command did not fail, the
\* valid images without the prefix are what is returned.
C22_AnyImageOnlyWithoutPrefix ==
    (variant = "v1" /\ ShellRanLast)
    => LET prefixed == {f \in DOMAIN imgDir : f.pfx}
           others == {f \in DOMAIN imgDir :
                         ~f.pfx /\ imgDir[f] > MinValidSize}
       IN  /\ (prefixed # {} => \A f \in Range(imageFiles) : f.pfx)
           /\ (prefixed = {} /\ ~attempts[Len(attempts)].out.throws
                 => Range(imageFiles) = others)

\* The prefix scan found only a file that fails the size check, an image
\* without the prefix is in the directory, and nothing was returned.
C22_Witness ==
    /\ variant = "v1"
    /\ ShellRanLast
    /\ ~attempts[Len(attempts)].out.throws
    /\ OtherImage \in DOMAIN imgDir
    /\ \E f \in DOMAIN imgDir : f.pfx
    /\ \A f \in DOMAIN imgDir : f.pfx => imgDir[f] <= MinValidSize
    /\ imageFiles = <<>>
    /\ rastStatus = "failed"

\* C23: in the first variant the handler stands in front of the Normalizer
\* only when the Normalizer has never run for the job and no renderer has
\* been invoked: it is invoked at most once, not again after it failed, and
\* not again after the Rasterizer failed.
C23_NoRetryAcrossStages ==
    (variant = "v1" /\ pc = "normalize")
    => /\ normStatus = "not_run"
       /\ convOut = "none"
       /\ rastStatus = "not_run"
       /\ attempts = <<>>

\* The Rasterizer failed after all its strategies and the job ended with
\* the one PDF the Normalizer made.
C23_Witness ==
    /\ variant = "v1"
    /\ pc = "done"
    /\ ext # ".pdf"
    /\ normStatus = "ok"
    /\ convOut = "bytes"
    /\ rastStatus = "failed"
    /\ Len(attempts) = NumConfigs + 1

\* C24: the handler sends a response at most once per request, and a
\* request whose handler has finished was answered exactly once; after the
\* success response no later step sends another one.
C24_ExactlyOneResponse ==
    variant \in {"v1", "p4"}
    => /\ responses <= 1
       /\ (pc = "done" => responses = 1)

\* C25: the server listens, and a request is being handled, only when
\* loadConversionModules has finished; from then on no step changes the
\* capability flags, so every handler sees their final values.
C25_ListenAfterProbe ==
    (listening \/ pc # "start") => probe.step = "done"

\* A request is handled with the flags the finished probe left.
C25_Witness ==
    /\ listening
    /\ probe.step = "done"
    /\ probe.imageTools
    /\ pc = "done"
    /\ respStatus = 200
    /\ libreOfficeConvert
    /\ pdf2pic
    /\ ext # ".pdf"

\* C26: once a request of the first variant is past the pre-check, its
\* input is a PDF or the office converter is, and stays, loaded, and the
\* pipeline never raises its own "conversion not supported" error.
C26_PreCheckCoversPipeline ==
    (variant = "v1" /\ intake = "stored" /\ pc \notin {"start", "precheck"}
       /\ respStatus # 400)
    => /\ (ext = ".pdf" \/ libreOfficeConvert)
       /\ error # "unsupported"

\* A Word upload passed the pre-check and failed inside the pipeline with
\* the converter's own error.
C26_Witness ==
    /\ variant = "v1"
    /\ probe.step = "done"
    /\ pc = "done"
    /\ ext # ".pdf"
    /\ libreOfficeConvert
    /\ normStatus = "failed"
    /\ convOut = "throws"
    /\ respStatus = 500

\* C27: in the first variant a request whose Result Publisher call did not
\* deliver (no webhook URL, or the webhook call failed) is still answered
\* with success, and the upload is still cleaned up: unlinkSync is called
\* exactly when KEEP_ORIGINAL_FILES is not 'true', and the file is gone
\* when it did not throw.
C27_PublisherFailureTolerated ==
    (variant = "v1" /\ pc = "done" /\ published # <<>>
       /\ published[1].outcome \in {"no_url", "failed"})
    => /\ respStatus = 200
       /\ respSuccess
       /\ responses = 1
       /\ (unlinks = "not_called" <=> keepOriginal)
       /\ (unlinks = "removed" => ~uploadExists)

C27_Witness ==
    /\ variant = "v1"
    /\ pc = "done"
    /\ published # <<>>
    /\ published[1].outcome = "failed"
    /\ respStatus = 200
    /\ ~keepOriginal
    /\ unlinks = "removed"
    /\ ~uploadExists

\* C28: in the first variant, with pdf2pic not loaded, no renderer is ever
\* invoked for the job (no configured attempt, no shell command), the output
\* directory is not created, and the result has zero images.
C28_NoRendererWithoutPdf2pic ==
    (variant = "v1" /\ ~pdf2pic)
    => /\ attempts = <<>>
       /\ ~dirExists
       /\ rastStatus \in {"not_run", "skipped"}
       /\ (result.kind = "result"
             => /\ result.count = 0
                /\ result.files = <<>>
                /\ rastStatus = "skipped")

C28_Witness ==
    /\ variant = "v1"
    /\ ~pdf2pic
    /\ pc = "done"
    /\ rastStatus = "skipped"
    /\ attempts = <<>>
    /\ result.kind = "result"
    /\ result.count = 0
    /\ respStatus = 200

\* C29: in every result of the first variant's processFileConversion the
\* count is the number of entries of files, and downloadUrl and
\* zipDownloadUrl are null exactly when the count is 0.
C29_CountAndUrls ==
    (variant = "v1" /\ result.kind = "result")
    => /\ result.count = Len(result.files)
       /\ (result.downloadUrl = "null" <=> result.count = 0)
       /\ (result.zipDownloadUrl = "null" <=> result.count = 0)

\* A result without images after the rasterizer failed.
C29_Witness ==
    /\ variant = "v1"
    /\ result.kind = "result"
    /\ rastStatus = "failed"
    /\ result.count = 0
    /\ result.downloadUrl = "null"
    /\ result.zipDownloadUrl = "null"

\* The error the configured phase of the first variant ended with: the
\* directory could not be made, the loop left no results, or none of the
\* returned files exists.
ConfiguredPhaseError ==
    IF ~dirExists THEN "mkdir_failed"
    ELSE IF results.null \/ Len(results.files) = 0 THEN PhaseError(lastError)
    ELSE "no_valid_files"

\* C30: when the configured phase and the shell fallback of the first
\* variant both failed, the rasterizer failed with the error of the
\* configured phase, never with an error of the shell fallback.
C30_OriginalErrorThrown ==
    (variant = "v1" /\ rastStatus = "failed")
    => /\ ShellRanLast
       /\ rastError = ConfiguredPhaseError
       /\ rastError \notin {"shell_command_failed", "shell_no_valid_files"}

\* Configuration 1 threw, configuration 2 returned nothing, the shell
\* command failed: the error of configuration 1 is what is thrown.
C30_Witness ==
    /\ variant = "v1"
    /\ rastStatus = "failed"
    /\ Len(attempts) = NumConfigs + 1
    /\ attempts[1].out.throws
    /\ ~attempts[2].out.throws
    /\ attempts[3].out.throws
    /\ rastError = "config1_threw"

====
